---- MODULE Spec2Model ----
(***************************************************************************)
(* Model of the Monte Carlo value-at-risk notebook var-demo.ipynb          *)
(* (Python 2 kernel): random portfolio, per-trial seeds, simstep /         *)
(* simulate / simulate_with_history, the Spark batch of trials, the sorted  *)
(* outcomes, the VaR index and the decile walks.                            *)
(*                                                                          *)
(* Representation.  Money is fixed-point: the integer q stands for the      *)
(* amount q / Unit, Unit = Scale^MaxDays, so that the division by 100.0 of  *)
(* daily_return is exact for MaxDays steps.  A seed is a pair <<hi, lo>>    *)
(* of 16-bit limbs standing for hi * 2^16 + lo (2^32 does not fit a TLC     *)
(* integer).  A generator is <<seed, n>>: the seed it was seeded with and   *)
(* the number of normalvariate calls made since; its n-th standard-normal   *)
(* deviate is the deterministic Z(<<seed, n>>).  A fraction such as          *)
(* percentage_var is a pair <<p, q>> standing for p / q.                    *)
(***************************************************************************)
EXTENDS Integers, Sequences, FiniteSets, TLC

\* ---------------------------------------------------------------- bounds
MaxTrials == 3
MaxDays == 2

\* ------------------------------------------------------ program constants
Scale == 100
LotSize == 11
MaxLots == 1000
SeedBits == 32
Deciles == 10

Unit == Scale ^ MaxDays

\* ------------------------------------------------------------ input sets
SymOrder == <<"AAA", "BBB">>
SymbolSets == {{"AAA"}, {"AAA", "BBB"}}
prices == [s \in {"AAA", "BBB"} |-> IF s = "AAA" THEN 1 ELSE 2]
LotSamples == {1}
LotDraws == { k \in LotSamples : 1 <= k /\ k <= MaxLots }
DistMaps ==
  { [s \in {"AAA", "BBB"} |-> IF s = "AAA" THEN <<0, 60>> ELSE <<1, 0>>],
    [s \in {"AAA"} |-> <<1, 50>>] }
DayCounts == (-1) .. MaxDays
TrialCounts == (-1) .. MaxTrials
AlphaSamples == { <<-1, 2>>, <<0, 1>>, <<1, 20>>, <<1, 2>>, <<1, 1>> }
SeedSamples == { <<0, 0>>, <<0, 1>>, <<32768, 0>>, <<32768, 1>>, <<65535, 65535>>, <<65536, 0>> }

\* ------------------------------------------------------- integer helpers
\* Python's int() of a quotient n/d (d > 0): truncation toward zero.
IntTrunc(n, d) == IF n >= 0 THEN n \div d ELSE -((-n) \div d)

\* limb numbers: comparison and the left shift 1 << n
LimbLeq(a, b) == a[1] < b[1] \/ (a[1] = b[1] /\ a[2] <= b[2])
LimbLess(a, b) == a[1] < b[1] \/ (a[1] = b[1] /\ a[2] < b[2])
ShiftLeftOne(n) == IF n >= 16 THEN <<2 ^ (n - 16), 0>> ELSE <<0, 2 ^ n>>

\* randint(a, b): the sampled values v with a <= v <= b
randint(a, b) == { v \in SeedSamples : LimbLeq(a, v) /\ LimbLeq(v, b) }

\* the bounds seeds() passes to randint: Python parses 1 << 32 - 1 as
\* 1 << (32 - 1)
SeedLo == <<0, 0>>
SeedHi == ShiftLeftOne(SeedBits - 1)

\* ------------------------------------------------------------ portfolios
Keys(pf) == SelectSeq(SymOrder, LAMBDA s : s \in DOMAIN pf)

RECURSIVE SumSeq(_)
SumSeq(q) == IF q = <<>> THEN 0 ELSE Head(q) + SumSeq(Tail(q))

portfolio_value(pf) == SumSeq([k \in 1 .. Len(Keys(pf)) |-> pf[Keys(pf)[k]]])

\* random_portfolio with the lots randint(1, 1000) returned for each symbol
random_portfolio(symbols, lots) ==
  [s \in symbols |-> (prices[s] * (lots[s] * LotSize)) * Unit]

\* ------------------------------------------------------------ generators
SeedPrng(seed) == <<seed, 0>>
Z(st) == (((st[1][1] % 7) + 3 * st[1][2] + 2 * st[2]) % 5) - 2
normalvariate(mean, stddev, st) == mean + stddev * Z(st)
Advance(st, k) == <<st[1], st[2] + k>>

\* ---------------------------------------------------------------- simstep
\* daily_return(sym) * v, for the percentage x drawn for sym
ApplyReturnNoShift(x, v) == (v \div Scale) * x
ApplyReturn(x, v) == (v \div Scale) * (x + 100)

\* params[sym] raises KeyError when sym has no entry
LookupOK(params, sym) == sym \in DOMAIN params

\* the percentage drawn for the k-th security of pf from generator st
DrawFor(pf, params, st, k) ==
  normalvariate(params[Keys(pf)[k]][1], params[Keys(pf)[k]][2], Advance(st, k - 1))

\* a simstep that leaves a security without a profile untouched
simstepSkipMissing(pf, params, st) ==
  [ok |-> TRUE,
   pf |-> [s \in DOMAIN pf |->
             LET k == CHOOSE j \in 1 .. Len(Keys(pf)) : Keys(pf)[j] = s
             IN  IF LookupOK(params, s)
                   THEN ApplyReturn(DrawFor(pf, params, st, k), pf[s])
                   ELSE pf[s]],
   prng |-> Advance(st, Len(Keys(pf)))]

simstep(pf, params, st) ==
  IF \A s \in DOMAIN pf : LookupOK(params, s)
    THEN [ok |-> TRUE,
          pf |-> [s \in DOMAIN pf |->
                    LET k == CHOOSE j \in 1 .. Len(Keys(pf)) : Keys(pf)[j] = s
                    IN  ApplyReturn(DrawFor(pf, params, st, k), pf[s])],
          prng |-> Advance(st, Len(Keys(pf)))]
    ELSE [ok |-> FALSE, pf |-> pf, prng |-> st]

\* for day in range(days): one more iteration after `day` iterations
LoopContinuesInclusive(day, days) == day <= days
LoopContinues(day, days) == day < days

\* ------------------------------------------------------- Python sequences
\* list indexing seq[i] with a 0-based, possibly negative index
PyIndexOK(L, i) == (-L) <= i /\ i < L
PyPos(L, i) == IF i < 0 THEN i + L ELSE i

\* (value, seed) tuples compare lexicographically
PairLeq(a, b) == a[1] < b[1] \/ (a[1] = b[1] /\ LimbLeq(a[2], b[2]))

RECURSIVE InsertPair(_, _)
InsertPair(x, sorted) ==
  IF sorted = <<>> THEN <<x>>
  ELSE IF PairLeq(x, Head(sorted)) THEN <<x>> \o sorted
  ELSE <<Head(sorted)>> \o InsertPair(x, Tail(sorted))

RECURSIVE SortPairs(_)
SortPairs(q) == IF q = <<>> THEN <<>> ELSE InsertPair(Head(q), SortPairs(Tail(q)))

SortValues(q) ==
  LET ps == SortPairs([k \in 1 .. Len(q) |-> <<q[k], <<0, 0>>>>])
  IN  [k \in 1 .. Len(q) |-> ps[k][1]]

\* ------------------------------------------------------------ aggregation
\* int(len(simulated_values) * percentage_var)
VarIndexCeil(L, alpha) == IntTrunc(L * alpha[1] + alpha[2] - 1, alpha[2])
VarIndex(L, alpha) == IntTrunc(L * alpha[1], alpha[2])

\* int((len(simulated_results) - 1) * i / 10): Python 2 integer division
DecileIndexRound(L, i) == (2 * (L - 1) * i + Deciles) \div (2 * Deciles)
DecileIndex(L, i) == ((L - 1) * i) \div Deciles

\* ------------------------------------------------------------------ state
VARIABLES pc, error, portfolio, dist_map, days_to_simulate, simulation_count,
          seed_list, initial_value, prngs, t_pc, t_pf, t_day, results,
          simulated_results, simulated_values, percentage_var, var_value,
          eleven_results, w, w_pc, w_prng, w_pf, w_day, w_values, walk_results

vars == <<pc, error, portfolio, dist_map, days_to_simulate, simulation_count,
          seed_list, initial_value, prngs, t_pc, t_pf, t_day, results,
          simulated_results, simulated_values, percentage_var, var_value,
          eleven_results, w, w_pc, w_prng, w_pf, w_day, w_values, walk_results>>

setupVars == <<portfolio, dist_map, days_to_simulate, simulation_count,
               seed_list, initial_value>>
trialVars == <<prngs, t_pc, t_pf, t_day, results>>
aggVars == <<simulated_results, simulated_values, percentage_var, var_value,
             eleven_results>>
walkVars == <<w, w_pc, w_prng, w_pf, w_day, w_values, walk_results>>

NoPortfolio == [s \in {} |-> 0]
Trials == 1 .. Len(seed_list)

Init ==
  /\ pc = "portfolio"
  /\ error = ""
  /\ portfolio = NoPortfolio
  /\ dist_map \in DistMaps
  /\ days_to_simulate = 0
  /\ simulation_count = 0
  /\ seed_list = <<>>
  /\ initial_value = 0
  /\ prngs = <<>>
  /\ t_pc = <<>>
  /\ t_pf = <<>>
  /\ t_day = <<>>
  /\ results = <<>>
  /\ simulated_results = <<>>
  /\ simulated_values = <<>>
  /\ percentage_var = <<0, 1>>
  /\ var_value = <<>>
  /\ eleven_results = <<>>
  /\ w = 1
  /\ w_pc = "ready"
  /\ w_prng = SeedPrng(<<0, 0>>)
  /\ w_pf = NoPortfolio
  /\ w_day = 0
  /\ w_values = <<>>
  /\ walk_results = <<>>

\* ------------------------------------------------------------------ setup
GeneratePortfolio ==
  /\ pc = "portfolio"
  /\ \E symbols \in SymbolSets : \E lots \in [symbols -> LotDraws] :
       portfolio' = random_portfolio(symbols, lots)
  /\ pc' = "configure"
  /\ UNCHANGED <<error, dist_map, days_to_simulate, simulation_count, seed_list,
                 initial_value, trialVars, aggVars, walkVars>>

Configure ==
  /\ pc = "configure"
  /\ days_to_simulate' \in DayCounts
  /\ simulation_count' \in TrialCounts
  /\ pc' = "seeds"
  /\ UNCHANGED <<error, portfolio, dist_map, seed_list, initial_value,
                 trialVars, aggVars, walkVars>>

\* one element of the list comprehension of seeds(count)
DrawSeed(v) ==
  /\ pc = "seeds"
  /\ Len(seed_list) < simulation_count
  /\ v \in randint(SeedLo, SeedHi)
  /\ seed_list' = Append(seed_list, v)
  /\ UNCHANGED <<pc, error, portfolio, dist_map, days_to_simulate,
                 simulation_count, initial_value, trialVars, aggVars, walkVars>>

Parallelize ==
  /\ pc = "seeds"
  /\ ~(Len(seed_list) < simulation_count)
  /\ initial_value' = portfolio_value(portfolio)
  /\ prngs' = [i \in Trials |-> SeedPrng(<<0, 0>>)]
  /\ t_pc' = [i \in Trials |-> "ready"]
  /\ t_pf' = [i \in Trials |-> NoPortfolio]
  /\ t_day' = [i \in Trials |-> 0]
  /\ results' = [i \in Trials |-> 0]
  /\ pc' = "run"
  /\ UNCHANGED <<error, portfolio, dist_map, days_to_simulate, simulation_count,
                 seed_list, aggVars, walkVars>>

\* ----------------------------------------------------------------- trials
\* the generator trial i draws from: the Random() it constructed itself
PrngOfShared(i) == 1
PrngOf(i) == i

\* simulate: prng = Random(); prng.seed(seed); pf = pf.copy()
StartTrial(i) ==
  /\ pc = "run"
  /\ t_pc[i] = "ready"
  /\ prngs' = [prngs EXCEPT ![PrngOf(i)] = SeedPrng(seed_list[i])]
  /\ t_pf' = [t_pf EXCEPT ![i] = portfolio]
  /\ t_day' = [t_day EXCEPT ![i] = 0]
  /\ t_pc' = [t_pc EXCEPT ![i] = "loop"]
  /\ UNCHANGED <<pc, error, setupVars, results, aggVars, walkVars>>

\* a loop body that stores the stepped portfolio in the broadcast one too
StepTrialInPlace(i) ==
  /\ pc = "run"
  /\ t_pc[i] = "loop"
  /\ LoopContinues(t_day[i], days_to_simulate)
  /\ LET r == simstep(t_pf[i], dist_map, prngs[PrngOf(i)])
     IN  IF r.ok
           THEN /\ t_pf' = [t_pf EXCEPT ![i] = r.pf]
                /\ portfolio' = r.pf
                /\ prngs' = [prngs EXCEPT ![PrngOf(i)] = r.prng]
                /\ t_day' = [t_day EXCEPT ![i] = t_day[i] + 1]
                /\ t_pc' = t_pc
           ELSE /\ t_pc' = [t_pc EXCEPT ![i] = "error"]
                /\ UNCHANGED <<t_pf, prngs, t_day, portfolio>>
  /\ UNCHANGED <<pc, error, dist_map, days_to_simulate, simulation_count,
                 seed_list, initial_value, results, aggVars, walkVars>>

\* simulate: one iteration of  for day in range(days): pf = simstep(...)
StepTrial(i) ==
  /\ pc = "run"
  /\ t_pc[i] = "loop"
  /\ LoopContinues(t_day[i], days_to_simulate)
  /\ LET r == simstep(t_pf[i], dist_map, prngs[PrngOf(i)])
     IN  IF r.ok
           THEN /\ t_pf' = [t_pf EXCEPT ![i] = r.pf]
                /\ prngs' = [prngs EXCEPT ![PrngOf(i)] = r.prng]
                /\ t_day' = [t_day EXCEPT ![i] = t_day[i] + 1]
                /\ t_pc' = t_pc
           ELSE /\ t_pc' = [t_pc EXCEPT ![i] = "error"]
                /\ UNCHANGED <<t_pf, prngs, t_day>>
  /\ UNCHANGED <<pc, error, setupVars, results, aggVars, walkVars>>

\* simulate returns pf; the mapped lambda turns it into the trial's P&L
FinishTrial(i) ==
  /\ pc = "run"
  /\ t_pc[i] = "loop"
  /\ ~LoopContinues(t_day[i], days_to_simulate)
  /\ results' = [results EXCEPT ![i] = portfolio_value(t_pf[i]) - initial_value]
  /\ t_pc' = [t_pc EXCEPT ![i] = "done"]
  /\ UNCHANGED <<pc, error, setupVars, prngs, t_pf, t_day, aggVars, walkVars>>

\* results.collect() raises as soon as a task has failed
CollectFail ==
  /\ pc = "run"
  /\ \E i \in Trials : t_pc[i] = "error"
  /\ pc' = "error"
  /\ error' = "KeyError"
  /\ UNCHANGED <<setupVars, trialVars, aggVars, walkVars>>

\* zip(results.collect(), seed_rdd.collect()); simulated_values.sort()
Collect ==
  /\ pc = "run"
  /\ \A i \in Trials : t_pc[i] = "done"
  /\ simulated_results' = [i \in Trials |-> <<results[i], seed_list[i]>>]
  /\ simulated_values' = SortValues([i \in Trials |-> results[i]])
  /\ pc' = "var"
  /\ UNCHANGED <<error, setupVars, trialVars, percentage_var, var_value,
                 eleven_results, walkVars>>

\* percentage_var = ...; simulated_values[int(len(simulated_values) * percentage_var)]
ComputeVar ==
  /\ pc = "var"
  /\ \E alpha \in AlphaSamples :
       /\ percentage_var' = alpha
       /\ LET L == Len(simulated_values)
              idx == VarIndex(L, alpha)
          IN  IF PyIndexOK(L, idx)
                THEN /\ var_value' = <<simulated_values[PyPos(L, idx) + 1]>>
                     /\ pc' = "deciles"
                     /\ error' = error
                ELSE /\ var_value' = var_value
                     /\ pc' = "error"
                     /\ error' = "IndexError"
  /\ UNCHANGED <<setupVars, trialVars, simulated_results, simulated_values,
                 eleven_results, walkVars>>

\* simulated_results.sort(); eleven_results = [...]
SelectDeciles ==
  /\ pc = "deciles"
  /\ LET L == Len(simulated_results)
         sorted == SortPairs(simulated_results)
     IN  /\ simulated_results' = sorted
         /\ IF \A i \in 0 .. Deciles : PyIndexOK(L, DecileIndex(L, i))
              THEN /\ eleven_results' =
                        [k \in 1 .. Deciles + 1 |->
                           sorted[PyPos(L, DecileIndex(L, k - 1)) + 1]]
                   /\ pc' = "walks"
                   /\ error' = error
              ELSE /\ eleven_results' = eleven_results
                   /\ pc' = "error"
                   /\ error' = "IndexError"
  /\ UNCHANGED <<setupVars, trialVars, simulated_values, percentage_var,
                 var_value, walkVars>>

\* ------------------------------------------------------------------ walks
\* The eleven walks are run one after the other, in list order.  The
\* notebook passes the literal 5 as their day count, the value it also gives
\* days_to_simulate; the model uses days_to_simulate for both.
\* a simulate_with_history that never seeds its generator from its argument
WalkStartUnseeded ==
  /\ pc = "walks"
  /\ w <= Len(eleven_results)
  /\ w_pc = "ready"
  /\ w_prng' = SeedPrng(<<0, 0>>)
  /\ w_pf' = portfolio
  /\ w_values' = <<portfolio_value(portfolio)>>
  /\ w_day' = 0
  /\ w_pc' = "loop"
  /\ UNCHANGED <<pc, error, setupVars, trialVars, aggVars, w, walk_results>>

\* simulate_with_history: seed, copy, values = [portfolio_value(pf)]
WalkStart ==
  /\ pc = "walks"
  /\ w <= Len(eleven_results)
  /\ w_pc = "ready"
  /\ w_prng' = SeedPrng(eleven_results[w][2])
  /\ w_pf' = portfolio
  /\ w_values' = <<portfolio_value(portfolio)>>
  /\ w_day' = 0
  /\ w_pc' = "loop"
  /\ UNCHANGED <<pc, error, setupVars, trialVars, aggVars, w, walk_results>>

\* simulate_with_history: one iteration of the loop
WalkStep ==
  /\ pc = "walks"
  /\ w_pc = "loop"
  /\ LoopContinues(w_day, days_to_simulate)
  /\ LET r == simstep(w_pf, dist_map, w_prng)
     IN  IF r.ok
           THEN /\ w_pf' = r.pf
                /\ w_prng' = r.prng
                /\ w_values' = Append(w_values, portfolio_value(r.pf))
                /\ w_day' = w_day + 1
                /\ UNCHANGED <<pc, error, w_pc>>
           ELSE /\ pc' = "error"
                /\ error' = "KeyError"
                /\ UNCHANGED <<w_pf, w_prng, w_values, w_day, w_pc>>
  /\ UNCHANGED <<setupVars, trialVars, aggVars, w, walk_results>>

\* simulate_with_history returns values
WalkFinish ==
  /\ pc = "walks"
  /\ w_pc = "loop"
  /\ ~LoopContinues(w_day, days_to_simulate)
  /\ walk_results' = Append(walk_results, w_values)
  /\ w' = w + 1
  /\ w_pc' = "ready"
  /\ UNCHANGED <<pc, error, setupVars, trialVars, aggVars, w_prng, w_pf, w_day,
                 w_values>>

\* walk_results = walks.collect()
CollectWalks ==
  /\ pc = "walks"
  /\ w > Len(eleven_results)
  /\ pc' = "done"
  /\ UNCHANGED <<error, setupVars, trialVars, aggVars, walkVars>>

Next ==
  \/ GeneratePortfolio
  \/ Configure
  \/ \E v \in SeedSamples : DrawSeed(v)
  \/ Parallelize
  \/ \E i \in Trials : StartTrial(i)
  \/ \E i \in Trials : StepTrial(i)
  \/ \E i \in Trials : FinishTrial(i)
  \/ CollectFail
  \/ Collect
  \/ ComputeVar
  \/ SelectDeciles
  \/ WalkStart
  \/ WalkStep
  \/ WalkFinish
  \/ CollectWalks

Spec == Init /\ [][Next]_vars

\* ------------------------------------------------- simulate as a function
\* simulate(seed, pf, params, days) run on its own, from the loop position
\* `day` with generator st
RECURSIVE RunAlone(_, _, _, _, _)
RunAlone(pf, params, st, day, days) ==
  IF LoopContinues(day, days)
    THEN LET r == simstep(pf, params, st)
         IN  IF r.ok THEN RunAlone(r.pf, params, r.prng, day + 1, days)
                     ELSE [ok |-> FALSE, pf |-> pf]
    ELSE [ok |-> TRUE, pf |-> pf]

simulate(seed, pf, params, days) == RunAlone(pf, params, SeedPrng(seed), 0, days)

\* ------------------------------------------------------ shared vocabulary
Last(q) == q[Len(q)]
Started(i) == t_pc[i] \in {"loop", "done", "error"}
Covered == DOMAIN portfolio \subseteq DOMAIN dist_map
Configured == pc \notin {"portfolio", "configure"}
Aggregated == pc \in {"deciles", "walks", "done"}

RECURSIVE SumOver(_, _)
SumOver(pf, S) ==
  IF S = {} THEN 0
  ELSE LET s == CHOOSE x \in S : TRUE IN pf[s] + SumOver(pf, S \ {s})

\* every percentage a generator seeded with seed hands out during the first
\* `day` days is at least -100
DrawsAtLeastMinus100(seed, day) ==
  \A d \in 0 .. day - 1 : \A k \in 1 .. Len(Keys(portfolio)) :
    DrawFor(portfolio, dist_map, <<seed, d * Len(Keys(portfolio))>>, k) >= -100

\* ------------------------------------------------------------------ C1
\* C1: every history returned by simulate_with_history has one value per day
\* from day 0 on, starts with the value of the untouched starting portfolio
\* and ends with the value of the portfolio simulate returned for the same
\* seed and day count.
C1_HistoryMatchesFinal ==
  \A j \in 1 .. Len(walk_results) :
    /\ Len(walk_results[j]) =
         (IF days_to_simulate > 0 THEN days_to_simulate ELSE 0) + 1
    /\ walk_results[j][1] = portfolio_value(portfolio)
    /\ \A i \in Trials :
         seed_list[i] = eleven_results[j][2] =>
           Last(walk_results[j]) = portfolio_value(t_pf[i])

C1_Witness ==
  /\ pc = "done"
  /\ days_to_simulate = MaxDays
  /\ \E j, k \in 1 .. Len(walk_results) :
       /\ Last(walk_results[j]) # walk_results[j][1]
       /\ Last(walk_results[j]) # Last(walk_results[k])

\* ------------------------------------------------------------------ C2
\* C2: under every interleaving of the trials' steps, a trial's portfolio and
\* outcome are those of simulate run alone on (seed, portfolio, params, days).
C2_OrderIndependent ==
  pc = "run" =>
    \A i \in Trials :
      /\ t_pc[i] = "loop" =>
           t_pf[i] = simulate(seed_list[i], portfolio, dist_map, t_day[i]).pf
      /\ t_pc[i] = "done" =>
           /\ simulate(seed_list[i], portfolio, dist_map, days_to_simulate).ok
           /\ t_pf[i] = simulate(seed_list[i], portfolio, dist_map, days_to_simulate).pf
           /\ results[i] =
                portfolio_value(simulate(seed_list[i], portfolio, dist_map,
                                         days_to_simulate).pf)
                  - portfolio_value(portfolio)
      /\ t_pc[i] = "error" =>
           ~simulate(seed_list[i], portfolio, dist_map, days_to_simulate).ok

C2_Witness ==
  /\ pc = "run"
  /\ days_to_simulate = MaxDays
  /\ \E i, j \in Trials :
       /\ i < j
       /\ t_pc[i] = "loop" /\ t_day[i] = 1
       /\ t_pc[j] = "done"
       /\ t_pf[j] # portfolio
       /\ t_pf[i] # portfolio

\* ------------------------------------------------------------------ C3
\* C3: once the campaign is set up, no step of any trial or walk changes the
\* starting portfolio or the return-profile map.
C3_ConfigUnchanged ==
  [][(pc \in {"run", "var", "deciles", "walks"}) =>
       (portfolio' = portfolio /\ dist_map' = dist_map)]_vars

C3_Witness ==
  /\ pc = "walks"
  /\ w_pc = "loop"
  /\ w_pf # portfolio
  /\ \E i \in Trials : t_pc[i] = "done" /\ t_pf[i] # portfolio

\* ------------------------------------------------------------------ C4
\* C4: a trial of zero days returns the starting portfolio unchanged, with the
\* same value, and takes no draw from its generator.
C4_ZeroDayIdentity ==
  \A i \in DOMAIN t_pc :
    (t_pc[i] = "done" /\ days_to_simulate = 0) =>
      /\ t_pf[i] = portfolio
      /\ portfolio_value(t_pf[i]) = portfolio_value(portfolio)
      /\ results[i] = 0
      /\ prngs[i] = SeedPrng(seed_list[i])

C4_Witness ==
  /\ days_to_simulate = 0
  /\ \E i \in DOMAIN t_pc : t_pc[i] = "done"
  /\ \E s \in DOMAIN portfolio : dist_map[s] # <<0, 0>>

\* ------------------------------------------------------------------ C5
\* C5: for a risk fraction p/q in [0, 1) and L >= 1 sorted outcomes the VaR
\* step never fails, and the reported VaR is the sorted outcome at index
\* floor(L * p / q), an index within 0 .. L-1; with fraction 0 it is the least
\* outcome of the batch; for L = 10000 and 5/100 the index is 500.
InUnitInterval(alpha) == 0 <= alpha[1] /\ alpha[1] < alpha[2]

C6_DecileNearest ==
  pc \in {"walks", "done"} =>
    /\ Len(eleven_results) = Deciles + 1
    /\ \A i \in 0 .. Deciles : \E k \in 0 .. Len(simulated_results) - 1 :
         /\ 2 * (k * Deciles - (Len(simulated_results) - 1) * i) <= Deciles
         /\ 2 * ((Len(simulated_results) - 1) * i - k * Deciles) <= Deciles
         /\ eleven_results[i + 1] = simulated_results[k + 1]

\* C6 amended: the i-th of the 11 representatives is the sorted pair at index
\* floor((L-1) * i / 10); for L = 10000 and i = 1 that index is 999.
C6_DecileFloor ==
  LET L == Len(simulated_results)
  IN  /\ DecileIndex(10000, 1) = 999
      /\ pc \in {"walks", "done"} =>
           /\ Len(eleven_results) = Deciles + 1
           /\ \A k \in 1 .. L - 1 :
                PairLeq(simulated_results[k], simulated_results[k + 1])
           /\ \A i \in 0 .. Deciles : \E k \in 0 .. L - 1 :
                /\ k * Deciles <= (L - 1) * i
                /\ (L - 1) * i < (k + 1) * Deciles
                /\ eleven_results[i + 1] = simulated_results[k + 1]

C6_Witness ==
  /\ pc = "walks"
  /\ Len(simulated_results) = 3
  /\ simulated_results[1] # simulated_results[2]
  /\ simulated_results[2] # simulated_results[3]
  /\ eleven_results[4] = simulated_results[1]
  /\ eleven_results[6] = simulated_results[2]

\* ------------------------------------------------------------------ C7
\* C7 as stated: while seeds(count) is still drawing, the values it can draw
\* next are exactly the integers of [0, 2^32).
C7_SeedRange ==
  (pc = "seeds" /\ Len(seed_list) < simulation_count) =>
    \A v \in SeedSamples :
      LimbLess(v, ShiftLeftOne(SeedBits)) <=> ENABLED DrawSeed(v)

\* ------------------------------------------------------------------ C8
\* C8 as stated: with day_count < 0, trial_count <= 0 or a risk fraction
\* outside [0, 1) no trial produces an outcome and no VaR is reported.
C8_InvalidRejected ==
  \/ /\ Configured => (days_to_simulate >= 0 /\ simulation_count > 0)
     /\ InUnitInterval(percentage_var)
  \/ /\ \A i \in DOMAIN t_pc : t_pc[i] # "done"
     /\ var_value = <<>>

\* ------------------------------------------------------------------ C9
\* C9 as stated: when the portfolio holds a security without a return
\* profile, no trial completes, whatever the day count (0 included).
C9_MissingAlwaysFatal ==
  (Configured /\ ~Covered /\ days_to_simulate >= 0) =>
    \A i \in DOMAIN t_pc : t_pc[i] # "done"

\* C9 amended: when the portfolio holds a security without a return profile
\* and the day count is at least 1, no trial of a non-empty batch gets past
\* day 0 or completes, and the batch yields no outcome list and no VaR.
C9_MissingFatal ==
  (Configured /\ ~Covered /\ days_to_simulate >= 1 /\ simulation_count >= 1) =>
    /\ \A i \in DOMAIN t_pc : t_pc[i] # "done" /\ t_day[i] = 0
    /\ pc \in {"seeds", "run", "error"}
    /\ pc = "error" => error = "KeyError"
    /\ simulated_results = <<>>
    /\ simulated_values = <<>>
    /\ var_value = <<>>

C9_Witness ==
  /\ pc = "error"
  /\ error = "KeyError"
  /\ ~Covered
  /\ Len(seed_list) >= 2
  /\ \E i, j \in Trials : t_pc[i] = "error" /\ t_pc[j] = "loop"

\* ------------------------------------------------------------------ C10
\* C10 as stated: in every state of every trial each quantity and the
\* portfolio value are non-negative.
C10_NeverNegative ==
  /\ \A i \in DOMAIN t_pc :
       Started(i) =>
         /\ \A s \in DOMAIN t_pf[i] : t_pf[i][s] >= 0
         /\ portfolio_value(t_pf[i]) >= 0
  /\ \A k \in 1 .. Len(w_values) : w_values[k] >= 0

\* C10 amended: in every state of every trial the portfolio value is the sum
\* of the per-security quantities, and the quantities and the value are
\* non-negative as long as every percentage drawn so far is at least -100.
C10_SumAndSign ==
  /\ \A i \in DOMAIN t_pc :
       Started(i) =>
         /\ portfolio_value(t_pf[i]) = SumOver(t_pf[i], DOMAIN t_pf[i])
         /\ t_pc[i] = "done" =>
              results[i] + initial_value = SumOver(t_pf[i], DOMAIN t_pf[i])
         /\ DrawsAtLeastMinus100(seed_list[i], t_day[i]) =>
              /\ \A s \in DOMAIN t_pf[i] : t_pf[i][s] >= 0
              /\ portfolio_value(t_pf[i]) >= 0
  /\ (pc = "walks" /\ w_pc = "loop") =>
       /\ Last(w_values) = SumOver(w_pf, DOMAIN w_pf)
       /\ DrawsAtLeastMinus100(eleven_results[w][2], w_day) =>
            /\ \A s \in DOMAIN w_pf : w_pf[s] >= 0
            /\ \A k \in 1 .. Len(w_values) : w_values[k] >= 0

C10_Witness ==
  /\ pc = "walks" /\ w_pc = "loop" /\ w_day >= 1
  /\ DrawsAtLeastMinus100(eleven_results[w][2], w_day)
  /\ Cardinality(DOMAIN w_pf) = 2
  /\ \E s \in DOMAIN w_pf : w_pf[s] < portfolio[s]
  /\ \E i \in Trials : t_pc[i] = "done" /\ \E s \in DOMAIN t_pf[i] : t_pf[i][s] < 0

====
